---- MODULE Spec2Model ----
(***************************************************************************)
(* A model of monaco-definition-provider: the two regex-based analyzers    *)
(* (PythonAnalyzer, TypeScriptAnalyzer) and DefinitionProvider.            *)
(*                                                                         *)
(* A source text is a sequence of one-character strings.  Offsets are      *)
(* 0-based as in JavaScript: the character at offset i of s is s[i+1].     *)
(* Lines and columns are 1-based as in the source.                         *)
(***************************************************************************)
EXTENDS Integers, Sequences, FiniteSets, TLC

\* ------------------------------------------------------------------------
\* Character classes of the JavaScript regular expressions
\* ------------------------------------------------------------------------
NL == "\n"

\* \w
WordChars ==
  {"a","b","c","d","e","f","g","h","i","j","k","l","m",
   "n","o","p","q","r","s","t","u","v","w","x","y","z",
   "A","B","C","D","E","F","G","H","I","J","K","L","M",
   "N","O","P","Q","R","S","T","U","V","W","X","Y","Z",
   "0","1","2","3","4","5","6","7","8","9","_"}

\* \s (the white space that occurs in the texts of the model)
SpaceChars == {" ", "\t", "\n", "\r"}

\* ------------------------------------------------------------------------
\* Regular expressions: the syntax tree of a pattern
\* ------------------------------------------------------------------------
Lit(cs)    == [t |-> "lit", cs |-> cs]          \* literal characters
In(S)      == [t |-> "in", set |-> S]           \* [...], \w, \s
NotIn(S)   == [t |-> "notin", set |-> S]        \* [^...] (matches \n too)
AnyChar    == [t |-> "any"]                     \* .  (not \n)
Bol        == [t |-> "bol"]                     \* ^ with the m flag
Eol        == [t |-> "eol"]                     \* $ with the m flag
Bos        == [t |-> "bos"]                     \* ^ without the m flag
Eos        == [t |-> "eos"]                     \* $ without the m flag
WordB      == [t |-> "wordb"]                   \* \b
Star(r)    == [t |-> "star", r |-> r]           \* r*  (greedy)
Cat(rs)    == [t |-> "cat", rs |-> rs]          \* r1 r2 ...
Alt(a, b)  == [t |-> "alt", a |-> a, b |-> b]   \* a|b
Grp(i, r)  == [t |-> "grp", i |-> i, r |-> r]   \* capturing group i
Plus(r)    == Cat(<<r, Star(r)>>)               \* r+
Opt(r)     == Alt(r, Cat(<<>>))                 \* r?
\* internal nodes of the matcher
Progress(p) == [t |-> "progress", p |-> p]      \* an iteration consumed input
GrpEnd(i, p) == [t |-> "grpend", i |-> i, p |-> p]

W == In(WordChars)
S == In(SpaceChars)

\* a capture is <<start, end>> (offsets); an unset group is NoCap
NoCap  == <<-1, -1>>
NoCaps == <<NoCap, NoCap>>
Fail   == [ok |-> FALSE, end |-> -1, cap |-> NoCaps]

IsWordAt(s, p) == p >= 0 /\ p < Len(s) /\ s[p + 1] \in WordChars

\* a node that matches exactly one character
IsCharNode(r) == r.t \in {"in", "notin", "any"}

CharOk(r, ch) ==
  CASE r.t = "in"    -> ch \in r.set
    [] r.t = "notin" -> ch \notin r.set
    [] r.t = "any"   -> ch # NL

\* the length of the longest run of characters of s from offset p on that
\* the one-character node r matches
RunLength(r, s, p) ==
  LET stops == {i \in (p + 1)..Len(s) : ~CharOk(r, s[i])}
  IN IF stops = {} THEN Len(s) - p
     ELSE (CHOOSE i \in stops : \A j \in stops : i <= j) - p - 1

\* The backtracking matcher: ks is the list of nodes still to match at
\* offset p of s (the continuation); the result is the first match in the
\* order a backtracking engine tries them, which is the one exec() returns.
RECURSIVE MatchK(_, _, _, _)
RECURSIVE GreedyBack(_, _, _, _, _)
MatchK(ks, s, p, c) ==
  IF ks = <<>> THEN [ok |-> TRUE, end |-> p, cap |-> c]
  ELSE
    LET r == Head(ks)
        k == Tail(ks)
    IN CASE r.t = "lit" ->
              IF p + Len(r.cs) <= Len(s)
                 /\ \A i \in 1..Len(r.cs) : s[p + i] = r.cs[i]
              THEN MatchK(k, s, p + Len(r.cs), c) ELSE Fail
         [] r.t = "in" ->
              IF p < Len(s) /\ s[p + 1] \in r.set
              THEN MatchK(k, s, p + 1, c) ELSE Fail
         [] r.t = "notin" ->
              IF p < Len(s) /\ s[p + 1] \notin r.set
              THEN MatchK(k, s, p + 1, c) ELSE Fail
         [] r.t = "any" ->
              IF p < Len(s) /\ s[p + 1] # NL
              THEN MatchK(k, s, p + 1, c) ELSE Fail
         [] r.t = "bol" ->
              IF p = 0 \/ s[p] = NL THEN MatchK(k, s, p, c) ELSE Fail
         [] r.t = "eol" ->
              IF p = Len(s) \/ s[p + 1] = NL THEN MatchK(k, s, p, c) ELSE Fail
         [] r.t = "bos" ->
              IF p = 0 THEN MatchK(k, s, p, c) ELSE Fail
         [] r.t = "eos" ->
              IF p = Len(s) THEN MatchK(k, s, p, c) ELSE Fail
         [] r.t = "wordb" ->
              IF IsWordAt(s, p - 1) # IsWordAt(s, p)
              THEN MatchK(k, s, p, c) ELSE Fail
         [] r.t = "cat" -> MatchK(r.rs \o k, s, p, c)
         [] r.t = "alt" ->
              LET x == MatchK(<<r.a>> \o k, s, p, c)
              IN IF x.ok THEN x ELSE MatchK(<<r.b>> \o k, s, p, c)
         [] r.t = "star" ->
              IF IsCharNode(r.r)
              THEN GreedyBack(k, s, p, RunLength(r.r, s, p), c)
              ELSE LET x == MatchK(<<r.r, Progress(p), r>> \o k, s, p, c)
                   IN IF x.ok THEN x ELSE MatchK(k, s, p, c)
         [] r.t = "progress" ->
              IF p > r.p THEN MatchK(k, s, p, c) ELSE Fail
         [] r.t = "grp" -> MatchK(<<r.r, GrpEnd(r.i, p)>> \o k, s, p, c)
         [] r.t = "grpend" ->
              MatchK(k, s, p, [c EXCEPT ![r.i] = <<r.p, p>>])

\* a greedy repetition of a one-character node that can take up to n
\* characters at offset p: the longest repetition the continuation k
\* accepts, tried from n down to 0
GreedyBack(k, s, p, n, c) ==
  LET x == MatchK(k, s, p + n, c)
  IN IF x.ok \/ n = 0 THEN x ELSE GreedyBack(k, s, p, n - 1, c)

\* RegExp.prototype.exec with the g flag: the leftmost match starting at
\* or after lastIndex (from); index = -1 when there is none
Min(ns) == CHOOSE n \in ns : \A o \in ns : n <= o

Exec(re, s, from) ==
  LET starts == {i \in from..Len(s) : MatchK(<<re>>, s, i, NoCaps).ok}
  IN IF starts = {} THEN [index |-> -1, end |-> -1, cap |-> NoCaps]
     ELSE LET x == MatchK(<<re>>, s, Min(starts), NoCaps)
          IN [index |-> Min(starts), end |-> x.end, cap |-> x.cap]

\* while ((match = regex.exec(source)) !== null): the successive matches.
\* lastIndex becomes the end of the match; every pattern of the analyzers
\* consumes at least one character, so the scan advances.
RECURSIVE ExecAll(_, _, _)
ExecAll(re, s, from) ==
  LET m == Exec(re, s, from)
  IN IF m.index < 0 THEN <<>>
     ELSE <<m>> \o ExecAll(re, s, IF m.end > m.index THEN m.end ELSE m.end + 1)

\* ------------------------------------------------------------------------
\* String helpers
\* ------------------------------------------------------------------------
\* s.substring(a, b): both ends are clamped to 0..s.length and swapped when
\* a > b
Substring(s, a, b) ==
  LET ca == IF a < 0 THEN 0 ELSE IF a > Len(s) THEN Len(s) ELSE a
      cb == IF b < 0 THEN 0 ELSE IF b > Len(s) THEN Len(s) ELSE b
  IN IF ca <= cb THEN SubSeq(s, ca + 1, cb) ELSE SubSeq(s, cb + 1, ca)

\* the text of capture group i of match m ("" when the group is unset)
Group(s, m, i) ==
  IF m.cap[i] = NoCap THEN <<>> ELSE Substring(s, m.cap[i][1], m.cap[i][2])

\* match[0]
Matched(s, m) == Substring(s, m.index, m.end)

\* s.split(ch) for a one-character separator
Split(s, ch) ==
  LET seps   == {i \in 1..Len(s) : s[i] = ch}
      \* the index of the k-th separator; 0 before the first and
      \* Len(s) + 1 after the last
      Sep(k) == IF k = 0 THEN 0
                ELSE IF k > Cardinality(seps) THEN Len(s) + 1
                ELSE CHOOSE i \in seps : Cardinality({j \in seps : j < i}) = k - 1
  IN [k \in 1..(Cardinality(seps) + 1) |-> SubSeq(s, Sep(k - 1) + 1, Sep(k) - 1)]

\* s.indexOf(t): the offset of the first occurrence of t in s, or -1
IndexOf(s, t) ==
  LET found == {i \in 0..(Len(s) - Len(t)) : \A j \in 1..Len(t) : s[i + j] = t[j]}
  IN IF found = {} THEN -1 ELSE Min(found)

\* s.trim()
Trim(s) ==
  LET kept == {i \in 1..Len(s) : s[i] \notin SpaceChars}
  IN IF kept = {} THEN <<>>
     ELSE SubSeq(s, Min(kept), CHOOSE i \in kept : \A j \in kept : j <= i)

\* /^\w+$/.test(s)
IsWord(s) == s # <<>> /\ \A i \in 1..Len(s) : s[i] \in WordChars

\* getLineColumn(source, index)
getLineColumn(source, index) ==
  LET before == Substring(source, 0, index)
      lines  == Split(before, NL)
  IN [line |-> Len(lines), column |-> Len(lines[Len(lines)]) + 1]

\* ------------------------------------------------------------------------
\* getSymbolAtPosition (each analyzer has its own copy of the same code)
\* ------------------------------------------------------------------------
\* null where a string is expected: no text, since a text is a sequence of
\* one-character strings
Null == <<"null">>

\* null where an object is expected
NullObject == [kind |-> "null"]

BEFORE_WORD == Cat(<<Grp(1, Star(W)), Eos>>)    \* /(\w*)$/
AFTER_WORD  == Cat(<<Bos, Grp(1, Star(W))>>)    \* /^(\w*)/

\* the word around the cursor in lineText (the second half of
\* getSymbolAtPosition, from beforeCursor on)
\* WordAround keeping only the run that starts at the column
WordAround_RightRunOnly(lineText, column) ==
  LET afterCursor == Substring(lineText, column - 1, Len(lineText))
      afterMatch  == Exec(AFTER_WORD, afterCursor, 0)
      word        == Group(afterCursor, afterMatch, 1)
  IN IF word = <<>> THEN Null ELSE word

WordAround(lineText, column) ==
  LET beforeCursor == Substring(lineText, 0, column - 1)
      afterCursor  == Substring(lineText, column - 1, Len(lineText))
      beforeMatch  == Exec(BEFORE_WORD, beforeCursor, 0)
      afterMatch   == Exec(AFTER_WORD, afterCursor, 0)
  IN IF beforeMatch.index < 0 /\ afterMatch.index < 0 THEN Null
     ELSE
       LET word == Group(beforeCursor, beforeMatch, 1)
                     \o Group(afterCursor, afterMatch, 1)
       IN IF word = <<>> THEN Null ELSE word

\* getSymbolAtPosition accepting a column two past the end of the line
PyGetSymbolAtPosition_LooseColumn(source, line, column) ==
  LET lines == Split(source, NL)
  IN IF line < 1 \/ line > Len(lines) THEN Null
     ELSE IF column < 1 \/ column > Len(lines[line]) + 2 THEN Null
     ELSE WordAround(lines[line], column)

\* PythonAnalyzer.getSymbolAtPosition
PyGetSymbolAtPosition(source, line, column) ==
  LET lines == Split(source, NL)
  IN IF line < 1 \/ line > Len(lines) THEN Null
     ELSE IF column < 1 \/ column > Len(lines[line]) + 1 THEN Null
     ELSE WordAround(lines[line], column)

\* TypeScriptAnalyzer.getSymbolAtPosition
TsGetSymbolAtPosition(source, line, column) ==
  LET lines == Split(source, NL)
  IN IF line < 1 \/ line > Len(lines) THEN Null
     ELSE IF column < 1 \/ column > Len(lines[line]) + 1 THEN Null
     ELSE WordAround(lines[line], column)

\* ------------------------------------------------------------------------
\* SymbolDefinition (types.ts)
\* ------------------------------------------------------------------------
Definition(name, startLine, startColumn, endLine, endColumn, kind) ==
  [name |-> name, startLine |-> startLine, startColumn |-> startColumn,
   endLine |-> endLine, endColumn |-> endColumn, kind |-> kind]

\* lines[line - 1]?.length || 1
LineLengthOr1(lines, line) ==
  IF line >= 1 /\ line <= Len(lines) /\ Len(lines[line]) # 0
  THEN Len(lines[line]) ELSE 1

\* s.split(/\s+as\s+/)
AS_SEPARATOR == Cat(<<Plus(S), Lit(<<"a", "s">>), Plus(S)>>)

RECURSIVE SplitAsFrom(_, _)
SplitAsFrom(s, from) ==
  LET m == Exec(AS_SEPARATOR, s, from)
  IN IF m.index < 0 THEN <<Substring(s, from, Len(s))>>
     ELSE <<Substring(s, from, m.index)>> \o SplitAsFrom(s, m.end)


\* const parts = imp.trim().split(/\s+as\s+/);
\* const name = (parts[1] || parts[0]).trim();
ImportedName(imp) ==
  LET parts == SplitAsFrom(Trim(imp), 0)
  IN Trim(IF Len(parts) >= 2 /\ parts[2] # <<>> THEN parts[2] ELSE parts[1])

\* the import definitions of one import list (the for loop over imports)
RECURSIVE ImportListDefs(_, _, _, _)
ImportListDefs(imports, i, line, lines) ==
  IF i > Len(imports) THEN <<>>
  ELSE LET name == ImportedName(imports[i])
       IN (IF name # <<>> /\ IsWord(name)
           THEN <<Definition(name, line, 1, line, LineLengthOr1(lines, line),
                             "import")>>
           ELSE <<>>)
          \o ImportListDefs(imports, i + 1, line, lines)

\* definitions.push(...) over the matches of a loop: the concatenation of
\* pushed[i], the definitions pushed for the i-th match, in order
RECURSIVE Pushed(_, _)
Pushed(pushed, i) ==
  IF i > Len(pushed) THEN <<>> ELSE pushed[i] \o Pushed(pushed, i + 1)

\* ------------------------------------------------------------------------
\* TypeScriptAnalyzer
\* ------------------------------------------------------------------------
Quote == In({"'", "\""})
NotQuote == NotIn({"'", "\""})

\* (?:export\s+)?
OptExport == Opt(Cat(<<Lit(<<"e", "x", "p", "o", "r", "t">>), Plus(S)>>))
\* (?:const|let|var)
ConstLetVar == Alt(Lit(<<"c", "o", "n", "s", "t">>), Alt(Lit(<<"l", "e", "t">>), Lit(<<"v", "a", "r">>)))
\* (?::\s*[^=]+)?
OptTsType == Opt(Cat(<<Lit(<<":">>), Star(S), Plus(NotIn({"="}))>>))
\* \s+from\s+['"]([^'"]+)['"]
FromModule ==
  Cat(<<Plus(S), Lit(<<"f", "r", "o", "m">>), Plus(S), Quote, Grp(2, Plus(NotQuote)), Quote>>)

\* /^(\s*)(?:export\s+)?(?:async\s+)?function\s+(\w+)\s*[<(]/gm
TS_FUNCTION_DECL ==
  Cat(<<Bol, Grp(1, Star(S)), OptExport, Opt(Cat(<<Lit(<<"a", "s", "y", "n", "c">>), Plus(S)>>)),
        Lit(<<"f", "u", "n", "c", "t", "i", "o", "n">>), Plus(S), Grp(2, Plus(W)), Star(S), In({"<", "("})>>)

\* /^(\s*)(?:export\s+)?(?:const|let|var)\s+(\w+)\s*(?::\s*[^=]+)?\s*=\s*
\*  (?:async\s+)?(?:\([^)]*\)|[\w]+)\s*=>/gm
TS_ARROW_FUNCTION ==
  Cat(<<Bol, Grp(1, Star(S)), OptExport, ConstLetVar, Plus(S),
        Grp(2, Plus(W)), Star(S), OptTsType, Star(S), Lit(<<"=">>), Star(S),
        Opt(Cat(<<Lit(<<"a", "s", "y", "n", "c">>), Plus(S)>>)),
        Alt(Cat(<<Lit(<<"(">>), Star(NotIn({")"})), Lit(<<")">>)>>), Plus(W)),
        Star(S), Lit(<<"=", ">">>)>>)

\* /^(\s*)(?:export\s+)?(?:abstract\s+)?class\s+(\w+)/gm
TS_CLASS_DECL ==
  Cat(<<Bol, Grp(1, Star(S)), OptExport, Opt(Cat(<<Lit(<<"a", "b", "s", "t", "r", "a", "c", "t">>), Plus(S)>>)),
        Lit(<<"c", "l", "a", "s", "s">>), Plus(S), Grp(2, Plus(W))>>)

\* /^(\s*)(?:export\s+)?interface\s+(\w+)/gm
TS_INTERFACE_DECL ==
  Cat(<<Bol, Grp(1, Star(S)), OptExport, Lit(<<"i", "n", "t", "e", "r", "f", "a", "c", "e">>), Plus(S),
        Grp(2, Plus(W))>>)

\* /^(\s*)(?:export\s+)?type\s+(\w+)/gm
TS_TYPE_DECL ==
  Cat(<<Bol, Grp(1, Star(S)), OptExport, Lit(<<"t", "y", "p", "e">>), Plus(S), Grp(2, Plus(W))>>)

\* /^(\s*)(?:export\s+)?(?:const|let|var)\s+(\w+)\s*(?::\s*[^=]+)?\s*=/gm
TS_VARIABLE_DECL ==
  Cat(<<Bol, Grp(1, Star(S)), OptExport, ConstLetVar, Plus(S),
        Grp(2, Plus(W)), Star(S), OptTsType, Star(S), Lit(<<"=">>)>>)

\* /^import\s+\{([^}]+)\}\s+from\s+['"]([^'"]+)['"]/gm
TS_IMPORT_NAMED ==
  Cat(<<Bol, Lit(<<"i", "m", "p", "o", "r", "t">>), Plus(S), Lit(<<"{">>), Grp(1, Plus(NotIn({"}"}))), Lit(<<"}">>),
        FromModule>>)

\* /^import\s+(\w+)\s+from\s+['"]([^'"]+)['"]/gm
TS_IMPORT_DEFAULT ==
  Cat(<<Bol, Lit(<<"i", "m", "p", "o", "r", "t">>), Plus(S), Grp(1, Plus(W)), FromModule>>)

\* /^import\s+\*\s+as\s+(\w+)\s+from\s+['"]([^'"]+)['"]/gm
TS_IMPORT_NAMESPACE ==
  Cat(<<Bol, Lit(<<"i", "m", "p", "o", "r", "t">>), Plus(S), Lit(<<"*">>), Plus(S), Lit(<<"a", "s">>), Plus(S),
        Grp(1, Plus(W)), FromModule>>)

\* the body of the while loops of findFunctions, findArrowFunctions,
\* findClasses, findInterfaces and findTypes: the definition pushed for
\* match m
\* a declaration whose endColumn is the column of the name's last character
TsDeclaration_InclusiveEnd(source, m, kind) ==
  LET name      == Group(source, m, 2)
      position  == getLineColumn(source, m.index)
      nameIndex == IndexOf(Matched(source, m), name)
  IN Definition(name, position.line, nameIndex + 1,
                position.line, nameIndex + Len(name), kind)

TsDeclaration(source, m, kind) ==
  LET name      == Group(source, m, 2)
      position  == getLineColumn(source, m.index)
      nameIndex == IndexOf(Matched(source, m), name)
  IN Definition(name, position.line, nameIndex + 1,
                position.line, nameIndex + 1 + Len(name), kind)

TsDeclarations(source, regex, kind) ==
  LET ms == ExecAll(regex, source, 0)
  IN [i \in 1..Len(ms) |-> TsDeclaration(source, ms[i], kind)]

TsFindFunctions(source) == TsDeclarations(source, TS_FUNCTION_DECL, "function")

TsFindArrowFunctions(source) ==
  TsDeclarations(source, TS_ARROW_FUNCTION, "function")

TsFindClasses(source) == TsDeclarations(source, TS_CLASS_DECL, "class")

TsFindInterfaces(source) == TsDeclarations(source, TS_INTERFACE_DECL, "class")

TsFindTypes(source) == TsDeclarations(source, TS_TYPE_DECL, "class")

\* the key `${indent.length}:${name}` of seenNames
SeenKey(indent, name) == <<Len(indent), name>>

\* the indentation threshold of findVariables (indent.length > 4)
MaxIndent == 4

\* the while loop of findVariables from match i on, seenNames being seen
RECURSIVE TsVariablesFrom(_, _, _, _)
TsVariablesFrom(source, ms, i, seen) ==
  IF i > Len(ms) THEN <<>>
  ELSE
    LET m      == ms[i]
        indent == Group(source, m, 1)
        name   == Group(source, m, 2)
        key    == SeenKey(indent, name)
    IN IF IndexOf(Matched(source, m), <<"=", ">">>) >= 0
       THEN TsVariablesFrom(source, ms, i + 1, seen)
       ELSE IF Len(indent) > MaxIndent
       THEN TsVariablesFrom(source, ms, i + 1, seen)
       ELSE IF key \in seen
       THEN TsVariablesFrom(source, ms, i + 1, seen)
       ELSE <<TsDeclaration(source, m, "variable")>>
            \o TsVariablesFrom(source, ms, i + 1, seen \cup {key})

TsFindVariables(source) ==
  TsVariablesFrom(source, ExecAll(TS_VARIABLE_DECL, source, 0), 1, {})

\* the definitions pushed for one match of IMPORT_NAMED
TsNamedImport(source, lines, m) ==
  ImportListDefs(Split(Group(source, m, 1), ","), 1,
                 getLineColumn(source, m.index).line, lines)

\* the definition pushed for one match of IMPORT_DEFAULT or IMPORT_NAMESPACE
TsSingleImport(source, lines, m) ==
  LET line == getLineColumn(source, m.index).line
  IN <<Definition(Group(source, m, 1), line, 1, line,
                  LineLengthOr1(lines, line), "import")>>

TsFindImports(source, lines) ==
  LET named      == ExecAll(TS_IMPORT_NAMED, source, 0)
      defaults   == ExecAll(TS_IMPORT_DEFAULT, source, 0)
      namespaces == ExecAll(TS_IMPORT_NAMESPACE, source, 0)
  IN Pushed([i \in 1..Len(named) |->
               TsNamedImport(source, lines, named[i])], 1)
     \o Pushed([i \in 1..Len(defaults) |->
                  TsSingleImport(source, lines, defaults[i])], 1)
     \o Pushed([i \in 1..Len(namespaces) |->
                  TsSingleImport(source, lines, namespaces[i])], 1)

TsFindDefinitions(source) ==
  LET lines == Split(source, NL)
  IN TsFindFunctions(source)
     \o TsFindArrowFunctions(source)
     \o TsFindClasses(source)
     \o TsFindInterfaces(source)
     \o TsFindTypes(source)
     \o TsFindVariables(source)
     \o TsFindImports(source, lines)

\* ------------------------------------------------------------------------
\* PythonAnalyzer
\* ------------------------------------------------------------------------
\* [\w.]+
ModulePath == Plus(In(WordChars \cup {"."}))

\* /^(\s*)def\s+(\w+)\s*\(/gm
PY_FUNCTION_DEF ==
  Cat(<<Bol, Grp(1, Star(S)), Lit(<<"d", "e", "f">>), Plus(S), Grp(2, Plus(W)), Star(S), Lit(<<"(">>)>>)

\* /^(\s*)class\s+(\w+)\s*[:(]/gm
PY_CLASS_DEF ==
  Cat(<<Bol, Grp(1, Star(S)), Lit(<<"c", "l", "a", "s", "s">>), Plus(S), Grp(2, Plus(W)), Star(S),
        In({":", "("})>>)

\* /^(\s*)(\w+)\s*(?::\s*\w+)?\s*=/gm
PY_VARIABLE_ASSIGNMENT ==
  Cat(<<Bol, Grp(1, Star(S)), Grp(2, Plus(W)), Star(S),
        Opt(Cat(<<Lit(<<":">>), Star(S), Plus(W)>>)), Star(S), Lit(<<"=">>)>>)

\* /^from\s+([\w.]+)\s+import\s+(.+)$/gm
PY_IMPORT_FROM ==
  Cat(<<Bol, Lit(<<"f", "r", "o", "m">>), Plus(S), Grp(1, ModulePath), Plus(S), Lit(<<"i", "m", "p", "o", "r", "t">>), Plus(S),
        Grp(2, Plus(AnyChar)), Eol>>)

\* /^import\s+([\w.]+)(?:\s+as\s+(\w+))?$/gm
PY_IMPORT_SIMPLE ==
  Cat(<<Bol, Lit(<<"i", "m", "p", "o", "r", "t">>), Plus(S), Grp(1, ModulePath),
        Opt(Cat(<<Plus(S), Lit(<<"a", "s">>), Plus(S), Grp(2, Plus(W))>>)), Eol>>)

\* /\(([^)]*)\)/
PY_PARAM_LIST == Cat(<<Lit(<<"(">>), Grp(1, Star(NotIn({")"}))), Lit(<<")">>)>>)

\* 'def ' length and 'class ' length
DefKeywordLength == 4
ClassKeywordLength == 6

\* the definition pushed by findFunctions and findClasses for match m, the
\* name being taken to start keywordLength characters after the indentation
PyDeclaration(source, m, keywordLength, kind) ==
  LET name         == Group(source, m, 2)
      nameStart    == m.index + Len(Group(source, m, 1)) + keywordLength
      namePosition == getLineColumn(source, nameStart)
  IN Definition(name, namePosition.line, namePosition.column,
                namePosition.line, namePosition.column + Len(name), kind)

\* trimmed.split(/[=:]/)[0]
BeforeEqualsOrColon(s) ==
  LET seps == {i \in 1..Len(s) : s[i] \in {"=", ":"}}
  IN IF seps = {} THEN s ELSE SubSeq(s, 1, Min(seps) - 1)

\* the for loop of findParameters from parameter i on
RECURSIVE PyParametersFrom(_, _, _, _)
PyParametersFrom(params, i, colOffset, funcLine) ==
  IF i > Len(params) THEN <<>>
  ELSE
    LET param     == params[i]
        trimmed   == Trim(param)
        paramName == Trim(BeforeEqualsOrColon(trimmed))
        paramStart == colOffset + IndexOf(param, paramName) + 1
        rest      == PyParametersFrom(params, i + 1, colOffset + Len(param) + 1,
                                      funcLine)
    IN IF trimmed = <<>> \/ trimmed = <<"s", "e", "l", "f">>
          \/ trimmed = <<"c", "l", "s">>
       \* continue, without advancing colOffset
       THEN PyParametersFrom(params, i + 1, colOffset, funcLine)
       ELSE IF paramName # <<>> /\ IsWord(paramName)
       THEN <<Definition(paramName, funcLine, paramStart, funcLine,
                         paramStart + Len(paramName), "parameter")>> \o rest
       ELSE rest

\* findParameters(funcDef, funcLine, definitions)
PyFindParameters(funcDef, funcLine) ==
  LET paramMatch == Exec(PY_PARAM_LIST, funcDef, 0)
  IN IF paramMatch.index < 0 THEN <<>>
     ELSE PyParametersFrom(Split(Group(funcDef, paramMatch, 1), ","), 1,
                           IndexOf(funcDef, <<"(">>) + 1, funcLine)

\* the definitions pushed for one match of FUNCTION_DEF
PyFunction(source, m) ==
  LET def == PyDeclaration(source, m, DefKeywordLength, "function")
  IN <<def>> \o PyFindParameters(Matched(source, m), def.startLine)

PyFindFunctions(source) ==
  LET ms == ExecAll(PY_FUNCTION_DEF, source, 0)
  IN Pushed([i \in 1..Len(ms) |-> PyFunction(source, ms[i])], 1)

PyFindClasses(source) ==
  LET ms == ExecAll(PY_CLASS_DEF, source, 0)
  IN [i \in 1..Len(ms) |->
        PyDeclaration(source, ms[i], ClassKeywordLength, "class")]

\* the while loop of findVariables from match i on, seenNames being seen
RECURSIVE PyVariablesFrom(_, _, _, _)
PyVariablesFrom(source, ms, i, seen) ==
  IF i > Len(ms) THEN <<>>
  ELSE
    LET m      == ms[i]
        indent == Group(source, m, 1)
        name   == Group(source, m, 2)
        key    == SeenKey(indent, name)
        namePosition == getLineColumn(source, m.index + Len(indent))
    IN IF Len(indent) > MaxIndent
       THEN PyVariablesFrom(source, ms, i + 1, seen)
       ELSE IF key \in seen
       THEN PyVariablesFrom(source, ms, i + 1, seen)
       ELSE IF Head(name) = "_" /\ name # <<"_">>
       THEN PyVariablesFrom(source, ms, i + 1, seen \cup {key})
       ELSE <<Definition(name, namePosition.line, namePosition.column,
                         namePosition.line, namePosition.column + Len(name),
                         "variable")>>
            \o PyVariablesFrom(source, ms, i + 1, seen \cup {key})

PyFindVariables(source) ==
  PyVariablesFrom(source, ExecAll(PY_VARIABLE_ASSIGNMENT, source, 0), 1, {})

\* the definitions pushed for one match of IMPORT_FROM
PyFromImport(source, lines, m) ==
  ImportListDefs(Split(Group(source, m, 2), ","), 1,
                 getLineColumn(source, m.index).line, lines)

\* match[2] || match[1].split('.').pop() || match[1]
PyModuleName(source, m) ==
  LET alias    == Group(source, m, 2)
      segments == Split(Group(source, m, 1), ".")
      last     == segments[Len(segments)]
  IN IF alias # <<>> THEN alias
     ELSE IF last # <<>> THEN last
     ELSE Group(source, m, 1)

\* the definition pushed for one match of IMPORT_SIMPLE
PySimpleImport(source, lines, m) ==
  LET line == getLineColumn(source, m.index).line
  IN <<Definition(PyModuleName(source, m), line, 1, line,
                  LineLengthOr1(lines, line), "import")>>

PyFindImports(source, lines) ==
  LET froms   == ExecAll(PY_IMPORT_FROM, source, 0)
      simples == ExecAll(PY_IMPORT_SIMPLE, source, 0)
  IN Pushed([i \in 1..Len(froms) |->
               PyFromImport(source, lines, froms[i])], 1)
     \o Pushed([i \in 1..Len(simples) |->
                  PySimpleImport(source, lines, simples[i])], 1)

PyFindDefinitions(source) ==
  LET lines == Split(source, NL)
  IN PyFindFunctions(source)
     \o PyFindClasses(source)
     \o PyFindVariables(source)
     \o PyFindImports(source, lines)

\* ------------------------------------------------------------------------
\* getImportPath: the patterns are built from symbolName
\* ------------------------------------------------------------------------
\* \s+from\s+['"]([^'"]+)['"]  with the module in group 1
FromModule1 ==
  Cat(<<Plus(S), Lit(<<"f", "r", "o", "m">>), Plus(S), Quote, Grp(1, Plus(NotQuote)), Quote>>)

\* ^import\s+\{[^}]*\b${symbolName}\b[^}]*\}\s+from\s+['"]([^'"]+)['"]
TsNamedPattern(symbolName) ==
  Cat(<<Bol, Lit(<<"i", "m", "p", "o", "r", "t">>), Plus(S), Lit(<<"{">>), Star(NotIn({"}"})), WordB,
        Lit(symbolName), WordB, Star(NotIn({"}"})), Lit(<<"}">>), FromModule1>>)

\* ^import\s+${symbolName}\s+from\s+['"]([^'"]+)['"]
TsDefaultPattern(symbolName) ==
  Cat(<<Bol, Lit(<<"i", "m", "p", "o", "r", "t">>), Plus(S), Lit(symbolName), FromModule1>>)

\* ^import\s+\*\s+as\s+${symbolName}\s+from\s+['"]([^'"]+)['"]
TsNamespacePattern(symbolName) ==
  Cat(<<Bol, Lit(<<"i", "m", "p", "o", "r", "t">>), Plus(S), Lit(<<"*">>), Plus(S), Lit(<<"a", "s">>), Plus(S),
        Lit(symbolName), FromModule1>>)

\* the first of the patterns, in order, that matches source decides: its
\* group 1 is returned; null when none matches
RECURSIVE FirstImportPath(_, _, _)
FirstImportPath(source, patterns, i) ==
  IF i > Len(patterns) THEN Null
  ELSE LET match == Exec(patterns[i], source, 0)
       IN IF match.index >= 0 THEN Group(source, match, 1)
          ELSE FirstImportPath(source, patterns, i + 1)

TsGetImportPath(source, symbolName) ==
  FirstImportPath(source,
                  <<TsNamedPattern(symbolName), TsDefaultPattern(symbolName),
                    TsNamespacePattern(symbolName)>>, 1)

\* ^from\s+([\w.]+)\s+import\s+.*\b${symbolName}\b
PyFromPattern(symbolName) ==
  Cat(<<Bol, Lit(<<"f", "r", "o", "m">>), Plus(S), Grp(1, ModulePath), Plus(S), Lit(<<"i", "m", "p", "o", "r", "t">>), Plus(S),
        Star(AnyChar), WordB, Lit(symbolName), WordB>>)

\* ^import\s+([\w.]+)\s+as\s+${symbolName}\b
PyAsPattern(symbolName) ==
  Cat(<<Bol, Lit(<<"i", "m", "p", "o", "r", "t">>), Plus(S), Grp(1, ModulePath), Plus(S), Lit(<<"a", "s">>), Plus(S),
        Lit(symbolName), WordB>>)

\* directPattern capturing the last segment only:
\* ^import\s+(?:[\w.]*\.)?(${symbolName})(?:\s|$)
PyDirectPattern_LastSegment(symbolName) ==
  Cat(<<Bol, Lit(<<"i", "m", "p", "o", "r", "t">>), Plus(S),
        Opt(Cat(<<Star(In(WordChars \cup {"."})), Lit(<<".">>)>>)),
        Grp(1, Lit(symbolName)),
        Alt(S, Eol)>>)

\* ^import\s+((?:[\w.]*\.)?${symbolName})(?:\s|$)
PyDirectPattern(symbolName) ==
  Cat(<<Bol, Lit(<<"i", "m", "p", "o", "r", "t">>), Plus(S),
        Grp(1, Cat(<<Opt(Cat(<<Star(In(WordChars \cup {"."})), Lit(<<".">>)>>)),
                     Lit(symbolName)>>)),
        Alt(S, Eol)>>)

PyGetImportPath(source, symbolName) ==
  FirstImportPath(source,
                  <<PyFromPattern(symbolName), PyAsPattern(symbolName),
                    PyDirectPattern(symbolName)>>, 1)

\* ------------------------------------------------------------------------
\* LanguageAnalyzer: the operations of the analyzer of a language
\* ------------------------------------------------------------------------
PythonAnalyzer == "PythonAnalyzer"
TypeScriptAnalyzer == "TypeScriptAnalyzer"

AnalyzerFindDefinitions(analyzer, source) ==
  IF analyzer = PythonAnalyzer THEN PyFindDefinitions(source)
  ELSE TsFindDefinitions(source)

AnalyzerGetSymbolAtPosition(analyzer, source, line, column) ==
  IF analyzer = PythonAnalyzer THEN PyGetSymbolAtPosition(source, line, column)
  ELSE TsGetSymbolAtPosition(source, line, column)

AnalyzerGetImportPath(analyzer, source, symbolName) ==
  IF analyzer = PythonAnalyzer THEN PyGetImportPath(source, symbolName)
  ELSE TsGetImportPath(source, symbolName)

\* ------------------------------------------------------------------------
\* The source texts the analyzers are applied to: up to MaxLines lines of
\* the language's pool, joined by line breaks
\* ------------------------------------------------------------------------
MaxLines == 2

PythonLines ==
  {
    \* (a blank line)
    <<>>,
    \* def f(a, b):
    <<"d", "e", "f", " ", "f", "(", "a", ",", " ", "b", ")", ":">>,
    \*   def  g(self, x):
    <<" ", " ", "d", "e", "f", " ", " ", "g", "(", "s", "e", "l", "f", ",", " ", "x", ")", ":">>,
    \* class  C(B):
    <<"c", "l", "a", "s", "s", " ", " ", "C", "(", "B", ")", ":">>,
    \* x = 1
    <<"x", " ", "=", " ", "1">>,
    \*     x = 3
    <<" ", " ", " ", " ", "x", " ", "=", " ", "3">>,
    \*     _p: int = 2
    <<" ", " ", " ", " ", "_", "p", ":", " ", "i", "n", "t", " ", "=", " ", "2">>,
    \* from m import a as b, c
    <<"f", "r", "o", "m", " ", "m", " ", "i", "m", "p", "o", "r", "t", " ", "a", " ", "a", "s", " ", "b", ",", " ", "c">>,
    \* import os.path
    <<"i", "m", "p", "o", "r", "t", " ", "o", "s", ".", "p", "a", "t", "h">>,
    \* import numpy as np
    <<"i", "m", "p", "o", "r", "t", " ", "n", "u", "m", "p", "y", " ", "a", "s", " ", "n", "p">>
  }

TypeScriptLines ==
  {
    \* (a blank line)
    <<>>,
    \* function f() {}
    <<"f", "u", "n", "c", "t", "i", "o", "n", " ", "f", "(", ")", " ", "{", "}">>,
    \*   async function g(a) {}
    <<" ", " ", "a", "s", "y", "n", "c", " ", "f", "u", "n", "c", "t", "i", "o", "n", " ", "g", "(", "a", ")", " ", "{", "}">>,
    \* class  C {}
    <<"c", "l", "a", "s", "s", " ", " ", "C", " ", "{", "}">>,
    \* export interface I {}
    <<"e", "x", "p", "o", "r", "t", " ", "i", "n", "t", "e", "r", "f", "a", "c", "e", " ", "I", " ", "{", "}">>,
    \* type t = 1
    <<"t", "y", "p", "e", " ", "t", " ", "=", " ", "1">>,
    \* const x = 1
    <<"c", "o", "n", "s", "t", " ", "x", " ", "=", " ", "1">>,
    \* const h = (a) => a
    <<"c", "o", "n", "s", "t", " ", "h", " ", "=", " ", "(", "a", ")", " ", "=", ">", " ", "a">>,
    \* import { a as b, c } from 'm'
    <<"i", "m", "p", "o", "r", "t", " ", "{", " ", "a", " ", "a", "s", " ", "b", ",", " ", "c", " ", "}", " ", "f", "r", "o", "m", " ", "'", "m", "'">>,
    \* import d from "k"
    <<"i", "m", "p", "o", "r", "t", " ", "d", " ", "f", "r", "o", "m", " ", "\"", "k", "\"">>,
    \* import * as ns from 'm'
    <<"i", "m", "p", "o", "r", "t", " ", "*", " ", "a", "s", " ", "n", "s", " ", "f", "r", "o", "m", " ", "'", "m", "'">>
  }

\* the names getImportPath is asked for
QueryNames ==
  {<<"a">>,
   <<"b">>,
   <<"c">>,
   <<"d">>,
   <<"f">>,
   <<"m">>,
   <<"a", "s">>,
   <<"n", "s">>,
   <<"o", "s">>,
   <<"n", "p">>,
   <<"p", "a", "t", "h">>,
   <<"n", "u", "m", "p", "y">>}

RECURSIVE JoinLines(_)
JoinLines(ls) ==
  IF Len(ls) = 1 THEN ls[1] ELSE ls[1] \o <<NL>> \o JoinLines(Tail(ls))

Texts(analyzer) ==
  LET pool == IF analyzer = PythonAnalyzer THEN PythonLines
              ELSE TypeScriptLines
  IN {JoinLines(ls) : ls \in UNION {[1..n -> pool] : n \in 1..MaxLines}}

\* ------------------------------------------------------------------------
\* DefinitionProvider.findMatchingDefinition
\* ------------------------------------------------------------------------
\* definitions.find(...): the first element among those at the indices
\* hits, the ones satisfying the predicate, or null
Find(defs, hits) ==
  IF hits = {} THEN NullObject ELSE defs[Min(hits)]

\* findMatchingDefinition without the preference for non-import definitions
findMatchingDefinition_FirstNamed(defs, symbolName) ==
  Find(defs, {i \in 1..Len(defs) : defs[i].name = symbolName})

findMatchingDefinition(defs, symbolName) ==
  LET nonImportDef ==
        Find(defs, {i \in 1..Len(defs) :
                      defs[i].name = symbolName /\ defs[i].kind # "import"})
  IN IF nonImportDef # NullObject THEN nonImportDef
     ELSE Find(defs, {i \in 1..Len(defs) : defs[i].name = symbolName})

\* the definition lists findMatchingDefinition is applied to (what a
\* registered LanguageAnalyzer may return): up to MaxDefs definitions, the
\* i-th one on line i
MaxDefs == 3

DefNames == {<<"a">>, <<"b">>}

DefLists ==
  UNION {
    {[i \in 1..n |-> Definition(names[i], i, 1, i, 2, kinds[i])] :
       names \in [1..n -> DefNames], kinds \in [1..n -> {"function", "import"}]} :
    n \in 0..MaxDefs}

\* ------------------------------------------------------------------------
\* DefinitionProvider
\* ------------------------------------------------------------------------
\* the analyzer of the README's "Custom Language Analyzers": it finds
\* nothing
MyLanguageAnalyzer == "MyLanguageAnalyzer"

\* this.analyzers.get(languageId) of a language without an entry
NoAnalyzer == "undefined"

LanguageIds == {"python", "typescript", "javascript", "mylang", "plaintext"}

\* the analyzers map the constructor builds
BuiltInAnalyzers ==
  [id \in LanguageIds |->
     CASE id = "python"     -> PythonAnalyzer
       [] id = "typescript" -> TypeScriptAnalyzer
       [] id = "javascript" -> TypeScriptAnalyzer
       [] OTHER             -> NoAnalyzer]

\* the operations of a registered analyzer
RegisteredFindDefinitions(a, text) ==
  IF a = MyLanguageAnalyzer THEN <<>> ELSE AnalyzerFindDefinitions(a, text)

RegisteredGetSymbolAtPosition(a, text, line, column) ==
  IF a = MyLanguageAnalyzer THEN Null
  ELSE AnalyzerGetSymbolAtPosition(a, text, line, column)

RegisteredGetImportPath(a, text, symbolName) ==
  IF a = MyLanguageAnalyzer THEN Null
  ELSE AnalyzerGetImportPath(a, text, symbolName)

\* new monaco.Range(startLine, startColumn, endLine, endColumn)
Range(startLineNumber, startColumn, endLineNumber, endColumn) ==
  [startLineNumber |-> startLineNumber, startColumn |-> startColumn,
   endLineNumber |-> endLineNumber, endColumn |-> endColumn]

\* a monaco.languages.Location
Location(uri, range) == [kind |-> "location", uri |-> uri, range |-> range]

\* The synchronous part of provideDefinition, up to its return or to the
\* invocation of options.onExternalNavigation: what it decided (stage) and
\* what it computed on the way.  analyzerCalls counts the analyzer
\* operations called.
SyncOutcome(stage, symbolName, analyzerCalls, localDefinition, importPath) ==
  [stage |-> stage, symbolName |-> symbolName,
   analyzerCalls |-> analyzerCalls, localDefinition |-> localDefinition,
   importPath |-> importPath]

\* lines 122-149: the import path is known
WithImportPath(symbolName, importPath, hasCallback) ==
  IF importPath # Null /\ hasCallback
  THEN SyncOutcome("external", symbolName, 3, NullObject, importPath)
  ELSE SyncOutcome("unresolved", symbolName, 3, NullObject, importPath)

\* provideDefinition asking for the import path before it looks at the
\* local definition
WithLocalDefinition_ImportFirst(a, text, symbolName, localDefinition, hasCallback) ==
  IF RegisteredGetImportPath(a, text, symbolName) # Null /\ hasCallback
  THEN SyncOutcome("external", symbolName, 3, NullObject,
                   RegisteredGetImportPath(a, text, symbolName))
  ELSE IF localDefinition # NullObject
  THEN SyncOutcome("local", symbolName, 2, localDefinition, Null)
  ELSE SyncOutcome("unresolved", symbolName, 3, NullObject,
                   RegisteredGetImportPath(a, text, symbolName))

\* lines 107-149: the local search is done
WithLocalDefinition(a, text, symbolName, localDefinition, hasCallback) ==
  IF localDefinition # NullObject
  THEN SyncOutcome("local", symbolName, 2, localDefinition, Null)
  ELSE WithImportPath(symbolName,
                      RegisteredGetImportPath(a, text, symbolName),
                      hasCallback)

\* WithSymbol without the check of token.isCancellationRequested
WithSymbol_NoCancellationCheck(a, text, symbolName, cancelled, hasCallback) ==
  IF symbolName = Null
  THEN SyncOutcome("noSymbol", Null, 1, NullObject, Null)
  ELSE WithLocalDefinition(
         a, text, symbolName,
         findMatchingDefinition(RegisteredFindDefinitions(a, text),
                                symbolName),
         hasCallback)

\* WithSymbol checking token.isCancellationRequested after the local
\* search, where the collaborator would be invoked
WithSymbol_CheckBeforeCollaborator(a, text, symbolName, cancelled, hasCallback) ==
  IF symbolName = Null
  THEN SyncOutcome("noSymbol", Null, 1, NullObject, Null)
  ELSE IF findMatchingDefinition(RegisteredFindDefinitions(a, text),
                                 symbolName) # NullObject
  THEN SyncOutcome("local", symbolName, 2,
                   findMatchingDefinition(RegisteredFindDefinitions(a, text),
                                          symbolName),
                   Null)
  ELSE IF cancelled
  THEN SyncOutcome("cancelled", symbolName, 2, NullObject, Null)
  ELSE WithImportPath(symbolName,
                      RegisteredGetImportPath(a, text, symbolName),
                      hasCallback)

\* lines 95-149: the symbol lookup is done
WithSymbol(a, text, symbolName, cancelled, hasCallback) ==
  IF symbolName = Null
  THEN SyncOutcome("noSymbol", Null, 1, NullObject, Null)
  ELSE IF cancelled
  THEN SyncOutcome("cancelled", symbolName, 1, NullObject, Null)
  ELSE WithLocalDefinition(
         a, text, symbolName,
         findMatchingDefinition(RegisteredFindDefinitions(a, text),
                                symbolName),
         hasCallback)

\* provideDefinition falling back on the TypeScript analyzer for a language
\* without an analyzer
provideDefinitionSync_Fallback(a, text, line, column, cancelled, hasCallback) ==
  WithSymbol(IF a = NoAnalyzer THEN TypeScriptAnalyzer ELSE a, text,
             RegisteredGetSymbolAtPosition(
               IF a = NoAnalyzer THEN TypeScriptAnalyzer ELSE a,
               text, line, column),
             cancelled, hasCallback)

provideDefinitionSync(a, text, line, column, cancelled, hasCallback) ==
  IF a = NoAnalyzer
  THEN SyncOutcome("noAnalyzer", Null, 0, NullObject, Null)
  ELSE WithSymbol(a, text,
                  RegisteredGetSymbolAtPosition(a, text, line, column),
                  cancelled, hasCallback)

\* the location returned for a local definition
LocalLocation(uri, d) ==
  Location(uri, Range(d.startLine, d.startColumn, d.endLine, d.endColumn))

\* provideDefinition returning the collaborator's target without checking
\* the token again
provideDefinitionResume_IgnoringToken(externalDef, cancelled) ==
  IF externalDef # NullObject
  THEN Location(externalDef.uri,
                Range(externalDef.range.startLineNumber,
                      externalDef.range.startColumn,
                      externalDef.range.endLineNumber,
                      externalDef.range.endColumn))
  ELSE NullObject

\* After the await: what provideDefinition returns when the collaborator's
\* promise resolved with externalDef (NullObject for null), the token being
\* cancelled or not at that moment
provideDefinitionResume(externalDef, cancelled) ==
  IF externalDef # NullObject /\ ~cancelled
  THEN Location(externalDef.uri,
                Range(externalDef.range.startLineNumber,
                      externalDef.range.startColumn,
                      externalDef.range.endLineNumber,
                      externalDef.range.endColumn))
  ELSE NullObject

\* a provideDefinition without the catch clause: the failure propagates
provideDefinitionCatch_Propagating ==
  [completion |-> "throw", result |-> NullObject]

\* the catch clause around the invocation and the await: how the call
\* completes when the collaborator threw or its promise rejected
provideDefinitionCatch == [completion |-> "return", result |-> NullObject]

\* ------------------------------------------------------------------------
\* The documents (monaco.editor.ITextModel) and cursors of the calls
\* ------------------------------------------------------------------------
\* import { format } from './utils' / format(1)
Text_format ==
  <<"i", "m", "p", "o", "r", "t", " ", "{", " ", "f", "o", "r", "m",
      "a", "t", " ", "}", " ", "f", "r", "o", "m", " ", "'", ".",
      "/", "u", "t", "i", "l", "s", "'", NL, "f", "o", "r", "m", "a",
      "t", "(", "1", ")">>

\* import { a as b } from 'm' / function f() {}
Text_alias ==
  <<"i", "m", "p", "o", "r", "t", " ", "{", " ", "a", " ", "a", "s",
      " ", "b", " ", "}", " ", "f", "r", "o", "m", " ", "'", "m",
      "'", NL, "f", "u", "n", "c", "t", "i", "o", "n", " ", "f", "(",
      ")", " ", "{", "}">>

\* import { f } from 'm' / function f() {}
Text_both ==
  <<"i", "m", "p", "o", "r", "t", " ", "{", " ", "f", " ", "}", " ",
      "f", "r", "o", "m", " ", "'", "m", "'", NL, "f", "u", "n", "c",
      "t", "i", "o", "n", " ", "f", "(", ")", " ", "{", "}">>

\* from m import x as y / def g():
Text_py ==
  <<"f", "r", "o", "m", " ", "m", " ", "i", "m", "p", "o", "r", "t",
      " ", "x", " ", "a", "s", " ", "y", NL, "d", "e", "f", " ", "g",
      "(", ")", ":">>

DocIds == {"format", "alias", "both", "py", "plain", "my"}

Documents ==
  [d \in DocIds |->
     CASE d = "format" ->
            [languageId |-> "typescript", uri |-> "file:///app.ts",
             text |-> Text_format]
       [] d = "alias" ->
            [languageId |-> "typescript", uri |-> "file:///alias.ts",
             text |-> Text_alias]
       [] d = "both" ->
            [languageId |-> "javascript", uri |-> "file:///both.js",
             text |-> Text_both]
       [] d = "py" ->
            [languageId |-> "python", uri |-> "file:///main.py",
             text |-> Text_py]
       [] d = "plain" ->
            [languageId |-> "plaintext", uri |-> "file:///notes.txt",
             text |-> Text_alias]
       [] d = "my" ->
            [languageId |-> "mylang", uri |-> "file:///main.my",
             text |-> Text_alias]]

\* the cursor positions <<line, column>> tried in each document
Cursors ==
  [d \in DocIds |->
     CASE d = "format" -> {<<1, 12>>, <<2, 1>>, <<1, 8>>}
       [] d = "alias"  -> {<<1, 10>>, <<1, 15>>, <<2, 10>>}
       [] d = "both"   -> {<<1, 10>>}
       [] d = "py"     -> {<<1, 15>>, <<1, 20>>, <<2, 5>>}
       [] d = "plain"  -> {<<1, 10>>, <<9, 9>>}
       [] d = "my"     -> {<<1, 10>>, <<2, 10>>}]

\* the targets the external collaborator may resolve with
Targets ==
  {[uri |-> "file:///utils.ts", range |-> Range(1, 1, 1, 1)],
   [uri |-> "file:///m.ts", range |-> Range(3, 5, 3, 9)]}

\* ------------------------------------------------------------------------
\* State
\* ------------------------------------------------------------------------
VARIABLES
  \* an analyzer applied to a text: the analyzer, its input and its result
  self,          \* the analyzer instance called ("none": the provider's
                 \* findMatchingDefinition is called instead)
  input,         \* the source text given to the analyzer
  definitions,   \* the definitions given to findMatchingDefinition
  op,            \* the operation called ("none" before the call)
  args,          \* its other arguments
  result,        \* what it returned
  earlier,       \* the operations called on the instance before this one
  \* a DefinitionProvider
  analyzers,     \* this.analyzers: language id -> analyzer
  registered,    \* language id -> the analyzer registerAnalyzer was last
                 \* called with ("none": no call; "disposed": none since
                 \* dispose)
  options,       \* this.options
  disposables,   \* this.disposables.length
  calls,         \* the provideDefinition calls suspended at the await
  returned       \* the provideDefinition call that completed in the last
                 \* step (NoReturn after a step that completes no call)

analyzerVars == <<self, input, definitions, op, args, result, earlier>>

providerVars ==
  <<analyzers, registered, options, disposables, calls, returned>>

vars == <<self, input, definitions, op, args, result, earlier,
          analyzers, registered, options, disposables, calls, returned>>

NoArgs == [line |-> 0, column |-> 0, symbolName |-> <<>>]

MaxCalls == 1

CallIds == 1..MaxCalls

\* a call slot that holds no suspended call
IdleCall ==
  [pc |-> "idle", doc |-> "none", line |-> 0, column |-> 0,
   analyzer |-> NoAnalyzer, symbolName |-> Null, importPath |-> Null,
   cancelledAtCall |-> FALSE, cancelled |-> FALSE]

\* no call completed in the last step
NoReturn ==
  [call |-> 0, doc |-> "none", line |-> 0, column |-> 0,
   cancelledAtCall |-> FALSE, analyzer |-> NoAnalyzer, stage |-> "none",
   symbolName |-> Null, analyzerCalls |-> 0, localDefinition |-> NullObject,
   importPath |-> Null, invoked |-> 0, invokedWith |-> <<>>,
   reply |-> "none", target |-> NullObject, cancelledAtResume |-> FALSE,
   completion |-> "none", result |-> NullObject]

\* the state a constructor call leaves
Constructed(opts) ==
  /\ analyzers = BuiltInAnalyzers
  /\ registered = [id \in LanguageIds |-> "none"]
  /\ options = opts
  /\ disposables = 0
  /\ calls = [c \in CallIds |-> IdleCall]
  /\ returned = NoReturn

NoAnalyzerCall ==
  /\ self = "none"
  /\ input = <<>>
  /\ definitions = <<>>
  /\ op = "none"
  /\ args = NoArgs
  /\ result = Null
  /\ earlier = {}

\* ------------------------------------------------------------------------
\* Spec: a DefinitionProvider, its registry and its provideDefinition calls
\* ------------------------------------------------------------------------
MaxDisposables == 1

\* the analyzers registerAnalyzer is called with
RegisteredAnalyzers == {TypeScriptAnalyzer, MyLanguageAnalyzer}

\* the synchronous part of provideDefinition for every analyzer a, document
\* d, cursor cur of the document, token state and configuration of the calls
SyncPart ==
  [k \in {<<a, d, cur, cancelled, hasCallback>> :
            a \in {PythonAnalyzer, TypeScriptAnalyzer, MyLanguageAnalyzer,
                   NoAnalyzer},
            d \in DocIds,
            cur \in UNION {Cursors[e] : e \in DocIds},
            cancelled \in BOOLEAN,
            hasCallback \in BOOLEAN} |->
     IF k[3] \in Cursors[k[2]]
     THEN provideDefinitionSync(k[1], Documents[k[2]].text, k[3][1], k[3][2],
                                k[4], k[5])
     ELSE SyncOutcome("none", Null, 0, NullObject, Null)]

\* lines 89-106: the definition of the document d that matches the symbol at
\* the cursor cur, for the analyzer a (NullObject when there is no symbol or
\* no match)
LocalMatch ==
  [k \in {<<a, d, cur>> :
            a \in {PythonAnalyzer, TypeScriptAnalyzer, MyLanguageAnalyzer,
                   NoAnalyzer},
            d \in DocIds,
            cur \in UNION {Cursors[e] : e \in DocIds}} |->
     IF k[1] = NoAnalyzer \/ k[3] \notin Cursors[k[2]]
        \/ RegisteredGetSymbolAtPosition(k[1], Documents[k[2]].text,
                                         k[3][1], k[3][2]) = Null
     THEN NullObject
     ELSE findMatchingDefinition(
            RegisteredFindDefinitions(k[1], Documents[k[2]].text),
            RegisteredGetSymbolAtPosition(k[1], Documents[k[2]].text,
                                          k[3][1], k[3][2]))]

Init ==
  /\ NoAnalyzerCall
  /\ \E onExternalNavigation \in BOOLEAN :
       Constructed([onExternalNavigation |-> onExternalNavigation])

\* register(languageId)
Register ==
  /\ disposables < MaxDisposables
  /\ disposables' = disposables + 1
  /\ returned' = NoReturn
  /\ UNCHANGED <<analyzers, registered, options, calls>>
  /\ UNCHANGED analyzerVars

\* registerAnalyzer leaving an existing entry as it is
registerAnalyzer_KeepExisting(registry, languageId, analyzer) ==
  IF registry[languageId] = NoAnalyzer
  THEN [registry EXCEPT ![languageId] = analyzer]
  ELSE registry

\* this.analyzers.set(languageId, analyzer)
registerAnalyzer(registry, languageId, analyzer) ==
  [registry EXCEPT ![languageId] = analyzer]

\* registerAnalyzer(languageId, analyzer)
RegisterAnalyzer ==
  /\ \E id \in {"python", "mylang"}, a \in RegisteredAnalyzers :
       /\ analyzers' = registerAnalyzer(analyzers, id, a)
       /\ registered' = [registered EXCEPT ![id] = a]
  /\ returned' = NoReturn
  /\ UNCHANGED <<options, disposables, calls>>
  /\ UNCHANGED analyzerVars

\* dispose()
Dispose ==
  /\ disposables' = 0
  /\ analyzers' = [id \in LanguageIds |-> NoAnalyzer]
  /\ registered' = [id \in LanguageIds |-> "disposed"]
  /\ returned' = NoReturn
  /\ UNCHANGED <<options, calls>>
  /\ UNCHANGED analyzerVars

\* what a call that completes leaves in returned
Returned(c, d, cur, cancelledAtCall, a, out, invoked, reply, target, cancelledAtResume, completion, res) ==
  [call |-> c, doc |-> d, line |-> cur[1], column |-> cur[2],
   cancelledAtCall |-> cancelledAtCall, analyzer |-> a, stage |-> out.stage,
   symbolName |-> out.symbolName, analyzerCalls |-> out.analyzerCalls,
   localDefinition |-> out.localDefinition, importPath |-> out.importPath,
   invoked |-> invoked,
   invokedWith |-> IF invoked = 0 THEN <<>>
                   ELSE <<out.symbolName, out.importPath, Documents[d].uri>>,
   reply |-> reply, target |-> target,
   cancelledAtResume |-> cancelledAtResume,
   completion |-> completion, result |-> res]

\* the synchronous part of a suspended call, as it was computed
SuspendedOutcome(call) ==
  SyncOutcome("external", call.symbolName, 3, NullObject, call.importPath)

\* how a call of provideDefinition goes on after its synchronous part out:
\* it returns without invoking the collaborator, or it invokes
\* options.onExternalNavigation, which returns a promise (the call is
\* suspended at the await) or throws (the catch block completes the call)
ProvideDefinitionFrom(c, d, cur, cancelled, a, out) ==
  \/ /\ out.stage # "external"
     /\ returned' =
          Returned(c, d, cur, cancelled, a, out, 0, "none", NullObject, FALSE,
                   "return",
                   IF out.stage = "local"
                   THEN LocalLocation(Documents[d].uri, out.localDefinition)
                   ELSE NullObject)
     /\ UNCHANGED calls
  \/ /\ out.stage = "external"
     /\ calls' = [calls EXCEPT ![c] =
          [pc |-> "awaiting", doc |-> d, line |-> cur[1], column |-> cur[2],
           analyzer |-> a, symbolName |-> out.symbolName,
           importPath |-> out.importPath, cancelledAtCall |-> cancelled,
           cancelled |-> cancelled]]
     /\ returned' = NoReturn
  \/ /\ out.stage = "external"
     /\ returned' =
          Returned(c, d, cur, cancelled, a, out, 1, "throw", NullObject,
                   cancelled, provideDefinitionCatch.completion,
                   provideDefinitionCatch.result)
     /\ UNCHANGED calls

\* provideDefinition(model, position, token); the call takes the first
\* free slot
ProvideDefinition ==
  \E c \in DOMAIN calls, d \in DocIds, cancelled \in BOOLEAN :
    \E cur \in Cursors[d] :
      /\ calls[c].pc = "idle"
      /\ \A o \in DOMAIN calls : o < c => calls[o].pc # "idle"
      /\ ProvideDefinitionFrom(
           c, d, cur, cancelled, analyzers[Documents[d].languageId],
           SyncPart[<<analyzers[Documents[d].languageId], d, cur, cancelled,
                      options.onExternalNavigation>>])
      /\ UNCHANGED <<analyzers, registered, options, disposables>>
      /\ UNCHANGED analyzerVars

\* one token shared by the suspended calls: the cancellation of one call
\* cancels them all
CancelToken_SharedToken ==
  \E c \in DOMAIN calls :
    /\ calls[c].pc = "awaiting"
    /\ ~calls[c].cancelled
    /\ calls' = [o \in DOMAIN calls |->
                   IF calls[o].pc = "awaiting"
                   THEN [calls[o] EXCEPT !.cancelled = TRUE]
                   ELSE calls[o]]
    /\ returned' = NoReturn
    /\ UNCHANGED <<analyzers, registered, options, disposables>>
    /\ UNCHANGED analyzerVars

\* the host requests the cancellation of a suspended call:
\* token.isCancellationRequested becomes true
CancelToken ==
  \E c \in DOMAIN calls :
    /\ calls[c].pc = "awaiting"
    /\ ~calls[c].cancelled
    /\ calls' = [calls EXCEPT ![c].cancelled = TRUE]
    /\ returned' = NoReturn
    /\ UNCHANGED <<analyzers, registered, options, disposables>>
    /\ UNCHANGED analyzerVars

\* the collaborator's promise resolves, with a target or with null, and
\* the suspended call runs to its return
CollaboratorResolves ==
  \E c \in DOMAIN calls, externalDef \in Targets \cup {NullObject} :
    LET call == calls[c]
    IN /\ call.pc = "awaiting"
       /\ returned' =
            Returned(c, call.doc, <<call.line, call.column>>,
                     call.cancelledAtCall,
                     call.analyzer, SuspendedOutcome(call), 1,
                     IF externalDef = NullObject THEN "null" ELSE "target",
                     externalDef, call.cancelled, "return",
                     provideDefinitionResume(externalDef, call.cancelled))
       /\ calls' = [calls EXCEPT ![c] = IdleCall]
       /\ UNCHANGED <<analyzers, registered, options, disposables>>
       /\ UNCHANGED analyzerVars

\* the collaborator's promise rejects and the suspended call completes
CollaboratorRejects ==
  \E c \in DOMAIN calls :
    LET call == calls[c]
    IN /\ call.pc = "awaiting"
       /\ returned' =
            Returned(c, call.doc, <<call.line, call.column>>,
                     call.cancelledAtCall,
                     call.analyzer, SuspendedOutcome(call), 1, "reject",
                     NullObject, call.cancelled,
                     provideDefinitionCatch.completion,
                     provideDefinitionCatch.result)
       /\ calls' = [calls EXCEPT ![c] = IdleCall]
       /\ UNCHANGED <<analyzers, registered, options, disposables>>
       /\ UNCHANGED analyzerVars

Next ==
  \/ Register
  \/ RegisterAnalyzer
  \/ Dispose
  \/ ProvideDefinition
  \/ CancelToken
  \/ CollaboratorResolves
  \/ CollaboratorRejects

Spec == Init /\ [][Next]_vars

\* ------------------------------------------------------------------------
\* SpecOverlap: a DefinitionProvider with a collaborator, whose host makes
\* provideDefinition calls that reach the collaborator while earlier ones
\* are suspended at the await
\* ------------------------------------------------------------------------
MaxOverlapping == 2

InitOverlap ==
  /\ NoAnalyzerCall
  /\ analyzers = BuiltInAnalyzers
  /\ registered = [id \in LanguageIds |-> "none"]
  /\ options = [onExternalNavigation |-> TRUE]
  /\ disposables = 0
  /\ calls = [c \in 1..MaxOverlapping |-> IdleCall]
  /\ returned = NoReturn

\* a provideDefinition call that is suspended at the await: the identifier
\* at its cursor is bound by an import, no definition of its document
\* matches it, and the collaborator returned a promise
SuspendedCall == ProvideDefinition /\ returned' = NoReturn

NextOverlap ==
  \/ RegisterAnalyzer
  \/ Dispose
  \/ SuspendedCall
  \/ CancelToken
  \/ CollaboratorResolves
  \/ CollaboratorRejects

SpecOverlap == InitOverlap /\ [][NextOverlap]_vars

\* ------------------------------------------------------------------------
\* SpecAnalyzer: the analyzers' operations and findMatchingDefinition
\* applied once to an input
\* ------------------------------------------------------------------------
InitAnalyzer ==
  /\ Constructed([onExternalNavigation |-> FALSE])
  /\ op = "none"
  /\ args = NoArgs
  /\ result = Null
  /\ earlier = {}
  /\ \/ /\ self \in {PythonAnalyzer, TypeScriptAnalyzer}
        /\ input \in Texts(self)
        /\ definitions = <<>>
     \/ /\ self = "none"
        /\ input = <<>>
        /\ definitions \in DefLists

\* findDefinitions(source) of each built-in analyzer for each text
FindDefinitionsOf ==
  [a \in {PythonAnalyzer, TypeScriptAnalyzer} |->
     [source \in Texts(a) |-> AnalyzerFindDefinitions(a, source)]]

\* findDefinitions appending to the array the call before returned (the
\* array kept in a field of the instance)
NewDefinitions_KeptArray(last) == last

\* const definitions: SymbolDefinition[] = []: the array a call of
\* findDefinitions fills, last being the array the call before returned
NewDefinitions(last) == <<>>

\* the text of a call that follows another: the same text, or its first or
\* its last line alone
LaterTexts(text) ==
  {text, Split(text, NL)[1], Split(text, NL)[Len(Split(text, NL))]}

\* analyzer.findDefinitions(source), as the first call on the instance or
\* after the calls made before
FindDefinitions ==
  /\ self # "none"
  /\ \E source \in LaterTexts(input) :
       /\ input' = source
       /\ result' = NewDefinitions(IF op = "findDefinitions" THEN result
                                   ELSE <<>>)
                      \o FindDefinitionsOf[self][source]
  /\ op' = "findDefinitions"
  /\ args' = NoArgs
  /\ earlier' = IF op = "none" THEN earlier ELSE earlier \cup {op}
  /\ UNCHANGED <<self, definitions>>
  /\ UNCHANGED providerVars

\* the positions asked for: every line from 0 to one past the last line and
\* every column from 0 to two past the end of the line
Columns(lines, line) ==
  0..((IF line >= 1 /\ line <= Len(lines) THEN Len(lines[line]) ELSE 0) + 2)

\* analyzer.getSymbolAtPosition(source, line, column)
GetSymbolAtPosition ==
  /\ op = "none"
  /\ self # "none"
  /\ \E line \in 0..(Len(Split(input, NL)) + 1) :
       \E column \in Columns(Split(input, NL), line) :
         /\ args' = [NoArgs EXCEPT !.line = line, !.column = column]
         /\ result' = AnalyzerGetSymbolAtPosition(self, input, line, column)
  /\ op' = "getSymbolAtPosition"
  /\ UNCHANGED <<self, input, definitions, earlier>>
  /\ UNCHANGED providerVars

\* analyzer.getImportPath(source, symbolName)
GetImportPath ==
  /\ op = "none"
  /\ self # "none"
  /\ \E symbolName \in QueryNames :
       /\ args' = [NoArgs EXCEPT !.symbolName = symbolName]
       /\ result' = AnalyzerGetImportPath(self, input, symbolName)
  /\ op' = "getImportPath"
  /\ UNCHANGED <<self, input, definitions, earlier>>
  /\ UNCHANGED providerVars

\* this.findMatchingDefinition(definitions, symbolName)
FindMatchingDefinition ==
  /\ op = "none"
  /\ self = "none"
  /\ \E symbolName \in DefNames :
       /\ args' = [NoArgs EXCEPT !.symbolName = symbolName]
       /\ result' = findMatchingDefinition(definitions, symbolName)
  /\ op' = "findMatchingDefinition"
  /\ UNCHANGED <<self, input, definitions, earlier>>
  /\ UNCHANGED providerVars

NextAnalyzer ==
  \/ FindDefinitions
  \/ GetSymbolAtPosition
  \/ GetImportPath
  \/ FindMatchingDefinition

SpecAnalyzer == InitAnalyzer /\ [][NextAnalyzer]_vars

\* ------------------------------------------------------------------------
\* Properties of the analyzers' operations (under SpecAnalyzer)
\* ------------------------------------------------------------------------

\* C7: getSymbolAtPosition of both built-in analyzers returns null whenever
\* line < 1, line > lineCount, column < 1 or column > lineLength + 1 for the
\* addressed line (so for line 0, line lineCount + 1, column 0 and column
\* lineLength + 2).
C7_OutOfRangeIsNull ==
  op = "getSymbolAtPosition" =>
    LET lines == Split(input, NL)
    IN (\/ args.line < 1
        \/ args.line > Len(lines)
        \/ args.column < 1
        \/ args.column > Len(lines[args.line]) + 1)
       => result = Null

\* C7's case: a column two past the end of a line that ends with an
\* identifier character
C7_Witness ==
  /\ op = "getSymbolAtPosition"
  /\ self = PythonAnalyzer
  /\ LET lines == Split(input, NL)
     IN /\ args.line >= 1 /\ args.line <= Len(lines)
        /\ Len(lines[args.line]) > 0
        /\ lines[args.line][Len(lines[args.line])] \in WordChars
        /\ args.column = Len(lines[args.line]) + 2
  /\ result = Null

\* C8: for every text and in-range position, getSymbolAtPosition returns
\* the maximal run of identifier characters ending just before the column
\* followed by the maximal run starting at the column, on that line; null
\* exactly when both runs are empty; the result holds identifier characters
\* only (so no line break).
C8_MaximalRuns ==
  op = "getSymbolAtPosition" =>
    LET lines == Split(input, NL)
    IN (/\ args.line >= 1 /\ args.line <= Len(lines)
        /\ args.column >= 1 /\ args.column <= Len(lines[args.line]) + 1)
       =>
       LET l == lines[args.line]
           c == args.column
           \* the lengths k such that the k characters before (after) the
           \* column are identifier characters
           lefts  == {k \in 0..(c - 1) :
                        \A i \in (c - k)..(c - 1) : l[i] \in WordChars}
           rights == {k \in 0..(Len(l) - c + 1) :
                        \A i \in c..(c + k - 1) : l[i] \in WordChars}
           left   == CHOOSE k \in lefts : \A j \in lefts : j <= k
           right  == CHOOSE k \in rights : \A j \in rights : j <= k
       IN /\ (result = Null) <=> (left = 0 /\ right = 0)
          /\ result # Null =>
               /\ result = SubSeq(l, c - left, c + right - 1)
               /\ \A i \in 1..Len(result) : result[i] \in WordChars
               /\ \A i \in 1..Len(result) : result[i] # NL

\* C8's case: a cursor inside a word, with identifier characters on both
\* sides, one of them an underscore or a digit
C8_Witness ==
  /\ op = "getSymbolAtPosition"
  /\ result # Null
  /\ LET lines == Split(input, NL)
     IN /\ args.line = 2 /\ Len(lines) = 2
        /\ args.column >= 2 /\ args.column <= Len(lines[2])
        /\ lines[2][args.column - 1] = "_"
        /\ lines[2][args.column] \in WordChars
        /\ Len(result) = 2

\* C9: every non-import definition emitted by findDefinitions lies on the
\* line where the declared identifier occurs, and the text of that line
\* from startColumn up to endColumn is the definition's name.
C9_SpanSelectsName ==
  op = "findDefinitions" =>
    LET lines == Split(input, NL)
    IN \A i \in 1..Len(result) :
         result[i].kind # "import" =>
           /\ result[i].startLine >= 1
           /\ result[i].startLine <= Len(lines)
           /\ SubSeq(lines[result[i].startLine], result[i].startColumn,
                     result[i].endColumn - 1) = result[i].name

\* C10 as stated: every emitted definition, import definitions included,
\* has startLine = endLine, startColumn <= endColumn and
\* endColumn - startColumn = length(name).
C10_AllKindsNameLength ==
  op = "findDefinitions" =>
    \A i \in 1..Len(result) :
      /\ result[i].startLine = result[i].endLine
      /\ result[i].startColumn <= result[i].endColumn
      /\ result[i].endColumn - result[i].startColumn = Len(result[i].name)

\* C10, amended: every emitted definition has startLine = endLine and
\* startColumn <= endColumn; endColumn - startColumn = length(name) for
\* every definition of a kind other than import; an import definition has
\* startColumn 1 and, as endColumn, the length of its line (1 when the
\* line is empty).
C10_SpanShape ==
  op = "findDefinitions" =>
    LET lines == Split(input, NL)
    IN \A i \in 1..Len(result) :
         /\ result[i].startLine = result[i].endLine
         /\ result[i].startColumn <= result[i].endColumn
         /\ result[i].kind # "import" =>
              result[i].endColumn - result[i].startColumn
                = Len(result[i].name)
         /\ result[i].kind = "import" =>
              /\ result[i].startColumn = 1
              /\ result[i].startLine \in 1..Len(lines)
              /\ result[i].endColumn
                   = IF Len(lines[result[i].startLine]) = 0 THEN 1
                     ELSE Len(lines[result[i].startLine])

\* C10's case: findDefinitions emitted an import definition and a
\* definition of another kind
C10_Witness ==
  /\ op = "findDefinitions"
  /\ \E i, j \in 1..Len(result) :
       /\ result[i].kind = "import"
       /\ result[i].endColumn - result[i].startColumn # Len(result[i].name)
       /\ result[j].kind \in {"function", "class", "variable"}

\* C2: findMatchingDefinition selects the first definition with the name
\* and a kind other than import when there is one, whatever imports of
\* that name precede it; an import definition (the first with the name)
\* only when no such definition exists; nothing when no definition has
\* the name.
C2_LocalMatchSelection ==
  op = "findMatchingDefinition" =>
    LET named(i)     == definitions[i].name = args.symbolName
        nonImport(i) == named(i) /\ definitions[i].kind # "import"
        idx          == 1..Len(definitions)
    IN /\ \A i \in idx :
            (nonImport(i) /\ \A j \in 1..(i - 1) : ~nonImport(j))
              => result = definitions[i]
       /\ \A i \in idx :
            (/\ named(i)
             /\ \A j \in 1..(i - 1) : ~named(j)
             /\ \A j \in idx : ~nonImport(j))
              => result = definitions[i] /\ result.kind = "import"
       /\ (\A i \in idx : ~named(i)) => result = NullObject
       /\ (result # NullObject /\ result.kind = "import")
            => \A j \in idx : ~nonImport(j)

\* C2's case: an import of the name precedes a function of the name, and
\* the function is selected
C2_Witness ==
  /\ op = "findMatchingDefinition"
  /\ Len(definitions) >= 2
  /\ definitions[1].name = args.symbolName
  /\ definitions[1].kind = "import"
  /\ \E i \in 2..Len(definitions) :
       /\ definitions[i].name = args.symbolName
       /\ definitions[i].kind = "function"
       /\ result = definitions[i]

\* ------------------------------------------------------------------------
\* Properties of provideDefinition (under Spec)
\* ------------------------------------------------------------------------

\* C1: in the TypeScript document whose only binding of format is
\* import { format } from './utils', with the cursor on format, no
\* cancellation and a collaborator configured, provideDefinition invokes
\* the collaborator with (format, ./utils, the document's uri) and returns
\* the collaborator's target, never a location of the document itself.
C1_ImportedNameGoesExternal ==
  (/\ returned.doc = "format"
   /\ returned.symbolName = <<"f", "o", "r", "m", "a", "t">>
   /\ returned.analyzer = TypeScriptAnalyzer
   /\ ~returned.cancelledAtCall
   /\ options.onExternalNavigation)
  =>
  /\ returned.invoked = 1
  /\ returned.invokedWith =
       <<returned.symbolName, <<".", "/", "u", "t", "i", "l", "s">>,
         Documents["format"].uri>>
  /\ (returned.reply = "target" /\ ~returned.cancelledAtResume)
       => returned.result
            = Location(returned.target.uri, returned.target.range)
  /\ returned.result # NullObject
       => returned.result.uri # Documents["format"].uri

\* C3: a call whose token is already cancelled before the point where the
\* collaborator would be invoked returns null and does not invoke the
\* collaborator: it completes with no invocation, and no call is suspended
\* at the collaborator with a token that was cancelled at the call.
C3_CancelledBeforeInvocation ==
  /\ returned.cancelledAtCall =>
       returned.result = NullObject /\ returned.invoked = 0
  /\ \A c \in CallIds :
       calls[c].pc = "awaiting" => ~calls[c].cancelledAtCall

\* C3's case: a cancelled call with the cursor on a name that an
\* uncancelled call takes to the collaborator
C3_Witness ==
  /\ returned.cancelledAtCall
  /\ returned.stage = "cancelled"
  /\ returned.doc = "alias"
  /\ returned.symbolName = <<"a">>
  /\ options.onExternalNavigation
  /\ returned.result = NullObject

\* C4: when the collaborator resolves with a target, provideDefinition
\* returns null if the token was cancelled while the call was suspended,
\* and the target only if the token is not cancelled when the await
\* completes.
C4_CancelledWhileAwaiting ==
  returned.reply = "target" =>
    IF returned.cancelledAtResume
    THEN returned.result = NullObject
    ELSE returned.result
           = Location(returned.target.uri, returned.target.range)

\* C4's case: the token was cancelled during the await and the
\* collaborator resolved with a target
C4_Witness ==
  /\ returned.reply = "target"
  /\ returned.target \in Targets
  /\ ~returned.cancelledAtCall
  /\ returned.cancelledAtResume
  /\ returned.result = NullObject

\* C5: a step in which the collaborator fails (it throws, or its promise
\* rejects) completes the call normally with null and leaves the analyzer
\* registry and the options unchanged.
C5_FailureSwallowed ==
  [][(/\ returned'.reply \in {"throw", "reject"}
      /\ \/ returned' # returned
         \/ \E c \in CallIds :
              calls[c].pc = "awaiting" /\ calls'[c].pc = "idle")
     => /\ returned'.completion = "return"
        /\ returned'.result = NullObject
        /\ analyzers' = analyzers
        /\ options' = options]_vars

\* C5's case: the collaborator's promise rejected, for a call of a provider
\* that holds a registered analyzer
C5_Witness ==
  /\ returned.reply = "reject"
  /\ returned.invoked = 1
  /\ returned.completion = "return"
  /\ returned.result = NullObject
  /\ analyzers["mylang"] = MyLanguageAnalyzer

\* C6: a call for a language without an entry in the analyzer registry
\* returns null without calling an analyzer operation and without invoking
\* the collaborator.
C6_UnregisteredLanguage ==
  (returned.call # 0 /\ returned.analyzer = NoAnalyzer) =>
    /\ returned.result = NullObject
    /\ returned.completion = "return"
    /\ returned.analyzerCalls = 0
    /\ returned.invoked = 0

\* C6's case: the registry holds no analyzer for typescript (the provider
\* was disposed), the collaborator is configured, and the cursor is on a
\* name that the TypeScript analyzer takes to the collaborator
C6_Witness ==
  /\ returned.call # 0
  /\ returned.analyzer = NoAnalyzer
  /\ returned.doc = "alias"
  /\ returned.line = 1 /\ returned.column = 10
  /\ ~returned.cancelledAtCall
  /\ options.onExternalNavigation
  /\ returned.result = NullObject

\* ------------------------------------------------------------------------
\* Further properties of the analyzers' operations (under SpecAnalyzer)
\* ------------------------------------------------------------------------

\* C11: every import definition emitted by findDefinitions starts at column
\* 1 of the line on which the import statement starts, and the text from
\* startColumn up to (not including) endColumn is that whole line.
C11_ImportSpansWholeLine ==
  op = "findDefinitions" =>
    LET lines == Split(input, NL)
    IN \A i \in 1..Len(result) :
         result[i].kind = "import" =>
           /\ result[i].startLine \in 1..Len(lines)
           /\ result[i].endLine = result[i].startLine
           /\ result[i].startColumn = 1
           /\ SubSeq(lines[result[i].startLine], result[i].startColumn,
                     result[i].endColumn - 1) = lines[result[i].startLine]

\* C12: for every Python function definition def f(p1, ..., pk) the
\* scanner recognizes, findDefinitions emits one parameter definition for
\* each non-empty parameter whose trimmed text is not self or cls, named by
\* the parameter's identifier (annotation and default stripped), with
\* startLine the function's declaration line; and it emits no other
\* parameter definition.
C12_ParametersEmitted ==
  (op = "findDefinitions" /\ self = PythonAnalyzer) =>
    LET ms == ExecAll(PY_FUNCTION_DEF, input, 0)
        \* the offsets of the closing parentheses after the opening one
        closes(m) == {j \in m.end..(Len(input) - 1) : input[j + 1] = ")"}
        \* the texts of the parameters between the parentheses
        params(m) == IF closes(m) = {} THEN <<>>
                     ELSE Split(Substring(input, m.end, Min(closes(m))), ",")
        identifier(param) == Trim(BeforeEqualsOrColon(Trim(param)))
        declared(param) ==
          /\ Trim(param) \notin {<<>>, <<"s", "e", "l", "f">>, <<"c", "l", "s">>}
          /\ IsWord(identifier(param))
        line(m) == getLineColumn(input, m.end - 1).line
        emitted == {i \in 1..Len(result) : result[i].kind = "parameter"}
    IN /\ \A n \in 1..Len(ms) : \A k \in 1..Len(params(ms[n])) :
            declared(params(ms[n])[k]) =>
              \E i \in emitted :
                /\ result[i].name = identifier(params(ms[n])[k])
                /\ result[i].startLine = line(ms[n])
       /\ \A i \in emitted :
            \E n \in 1..Len(ms) : \E k \in 1..Len(params(ms[n])) :
              /\ declared(params(ms[n])[k])
              /\ result[i].name = identifier(params(ms[n])[k])
              /\ result[i].startLine = line(ms[n])

\* C13: a const/let/var binding that the arrow-function scanner matches
\* yields exactly one definition, of kind function, and findDefinitions of
\* the TypeScript analyzer emits no variable definition for it.
C13_ArrowBindingNotVariable ==
  (op = "findDefinitions" /\ self = TypeScriptAnalyzer) =>
    LET arrows == ExecAll(TS_ARROW_FUNCTION, input, 0)
        \* the definitions emitted for the declaration matched by m
        emitted(m) ==
          {i \in 1..Len(result) :
             /\ result[i].name = Group(input, m, 2)
             /\ result[i].startLine = getLineColumn(input, m.index).line}
    IN \A n \in 1..Len(arrows) :
         /\ \A i \in emitted(arrows[n]) : result[i].kind # "variable"
         /\ Cardinality({i \in emitted(arrows[n]) :
                           result[i].kind = "function"}) = 1
         /\ Cardinality(emitted(arrows[n])) = 1

\* C14: within one findDefinitions call of the TypeScript analyzer, no two
\* definitions of the arrow-function scanner and no two definitions of the
\* variable scanner share the same (indentation depth, name), the depth
\* being the number of leading whitespace characters of the definition's
\* line; a binding whose name begins with an underscore is emitted like
\* any other.
C14_OnePerDepthAndName ==
  (op = "findDefinitions" /\ self = TypeScriptAnalyzer) =>
    LET lines == Split(input, NL)
        text(d) == lines[d.startLine]
        depth(d) ==
          IF \A i \in 1..Len(text(d)) : text(d)[i] \in SpaceChars
          THEN Len(text(d))
          ELSE Min({i \in 1..Len(text(d)) : text(d)[i] \notin SpaceChars}) - 1
        \* result holds the definitions of the function scanner first and
        \* those of the arrow-function scanner next
        nFunctions == Len(ExecAll(TS_FUNCTION_DECL, input, 0))
        nArrows    == Len(ExecAll(TS_ARROW_FUNCTION, input, 0))
        arrows     == (nFunctions + 1)..(nFunctions + nArrows)
        variables  == {i \in 1..Len(result) : result[i].kind = "variable"}
        bindings   == ExecAll(TS_VARIABLE_DECL, input, 0)
    IN /\ \A i, j \in arrows :
            (i # j) => <<depth(result[i]), result[i].name>>
                         # <<depth(result[j]), result[j].name>>
       /\ \A i, j \in variables :
            (i # j) => <<depth(result[i]), result[i].name>>
                         # <<depth(result[j]), result[j].name>>
       /\ \A n \in 1..Len(bindings) :
            (/\ Len(Group(input, bindings[n], 1)) <= MaxIndent
             /\ Head(Group(input, bindings[n], 2)) = "_")
            => \E i \in variables :
                 result[i].name = Group(input, bindings[n], 2)

\* C15: the variable scanner of the Python analyzer keys on the
\* indentation of the assignment's own line: the assignments n = ... and
\* n: T = ... that yield a variable definition are exactly those whose own
\* line has at most 4 leading whitespace characters, whose name does not
\* start with an underscore (unless it is the bare underscore) and that no
\* earlier assignment to n at the same depth precedes, whatever blank lines
\* come before them.
C15_OwnLineIndentation ==
  (op = "findDefinitions" /\ self = PythonAnalyzer) =>
    LET lines == Split(input, NL)
        \* the assignment on line k, taken alone
        assignment(k) == Exec(PY_VARIABLE_ASSIGNMENT, lines[k], 0)
        isAssignment(k) == assignment(k).index = 0
        depth(k) == Len(Group(lines[k], assignment(k), 1))
        name(k)  == Group(lines[k], assignment(k), 2)
        yields(k) ==
          /\ isAssignment(k)
          /\ depth(k) <= MaxIndent
          /\ (Head(name(k)) # "_" \/ name(k) = <<"_">>)
          /\ \A j \in 1..(k - 1) :
               ~(isAssignment(j) /\ depth(j) = depth(k) /\ name(j) = name(k))
        variables == {i \in 1..Len(result) : result[i].kind = "variable"}
    IN /\ \A k \in 1..Len(lines) :
            yields(k) => \E i \in variables :
                           /\ result[i].name = name(k)
                           /\ result[i].startLine = k
       /\ \A i \in variables :
            /\ result[i].startLine \in 1..Len(lines)
            /\ yields(result[i].startLine)
            /\ result[i].name = name(result[i].startLine)

\* C16: when a line of the text is an import statement of a supported
\* shape that binds the name n from the module m, and n occurs as a word
\* in no other import statement of the text, getImportPath(text, n)
\* returns m.  Python: from m import n, from m import x as n, import m as
\* n, import m with n the last segment of m.  TypeScript: import { n } from
\* 'm', import { x as n } from 'm', import n from 'm', import * as n from
\* 'm'.
C16_BoundNameGivesModule ==
  op = "getImportPath" =>
    LET lines == Split(input, NL)
        n     == args.symbolName
        \* the statement on line k, taken alone, in each of the shapes
        from(k)      == Exec(PY_IMPORT_FROM, lines[k], 0)
        simple(k)    == Exec(PY_IMPORT_SIMPLE, lines[k], 0)
        named(k)     == Exec(TS_IMPORT_NAMED, lines[k], 0)
        default(k)   == Exec(TS_IMPORT_DEFAULT, lines[k], 0)
        namespace(k) == Exec(TS_IMPORT_NAMESPACE, lines[k], 0)
        \* the names bound by a list a, b as c
        listed(list) == {ImportedName(Split(list, ",")[q]) :
                           q \in 1..Len(Split(list, ","))}
        \* the module line k binds n from (Null when it does not bind n)
        module(k) ==
          IF self = PythonAnalyzer
          THEN IF from(k).index = 0
                  /\ n \in listed(Group(lines[k], from(k), 2))
               THEN Group(lines[k], from(k), 1)
               ELSE IF simple(k).index = 0
                       /\ n = PyModuleName(lines[k], simple(k))
               THEN Group(lines[k], simple(k), 1)
               ELSE Null
          ELSE IF named(k).index = 0
                  /\ n \in listed(Group(lines[k], named(k), 1))
               THEN Group(lines[k], named(k), 2)
               ELSE IF default(k).index = 0
                       /\ n = Group(lines[k], default(k), 1)
               THEN Group(lines[k], default(k), 2)
               ELSE IF namespace(k).index = 0
                       /\ n = Group(lines[k], namespace(k), 1)
               THEN Group(lines[k], namespace(k), 2)
               ELSE Null
        isImport(k) ==
          IF self = PythonAnalyzer
          THEN from(k).index = 0 \/ simple(k).index = 0
          ELSE named(k).index = 0 \/ default(k).index = 0
                 \/ namespace(k).index = 0
        \* n occurs as a word in line k
        occurs(k) ==
          \E q \in 0..(Len(lines[k]) - Len(n)) :
            /\ SubSeq(lines[k], q + 1, q + Len(n)) = n
            /\ ~IsWordAt(lines[k], q - 1)
            /\ ~IsWordAt(lines[k], q + Len(n))
    IN \A k \in 1..Len(lines) :
         LET bound == module(k)
         IN (/\ bound # Null
             /\ \A j \in 1..Len(lines) :
                  (j # k /\ isImport(j)) => ~occurs(j))
            => result = bound

\* C16's case: the name is the last segment of a dotted module imported
\* without an alias, next to another import statement
C16_Witness ==
  /\ op = "getImportPath"
  /\ self = PythonAnalyzer
  /\ input = <<"i", "m", "p", "o", "r", "t", " ", "n", "u", "m", "p", "y",
               " ", "a", "s", " ", "n", "p", NL,
               "i", "m", "p", "o", "r", "t", " ", "o", "s", ".", "p", "a",
               "t", "h">>
  /\ args.symbolName = <<"p", "a", "t", "h">>
  /\ result = <<"o", "s", ".", "p", "a", "t", "h">>

\* C17: getImportPath(text, name) returns null whenever name is not the
\* bound name of an import statement of the text (no import definition of
\* findDefinitions carries it): a name declared locally only, a name that
\* does not occur, the original name of an aliased import, a word such as
\* the keyword as that merely stands on an import line.
C17_UnboundNameGivesNull ==
  op = "getImportPath" =>
    LET defs == AnalyzerFindDefinitions(self, input)
    IN (\A i \in 1..Len(defs) :
          ~(defs[i].kind = "import" /\ defs[i].name = args.symbolName))
       => result = Null

C19_MostRecentlyRegistered ==
  /\ [](\A id \in LanguageIds :
          registered[id] # "disposed"
            => analyzers[id] = IF registered[id] = "none"
                               THEN BuiltInAnalyzers[id]
                               ELSE registered[id])
  /\ [][LET expected(reg, id) ==
             IF reg[id] = "none" THEN BuiltInAnalyzers[id] ELSE reg[id]
       IN
        /\ (/\ returned' # returned
            /\ returned'.call # 0
            /\ returned'.reply \in {"none", "throw"}
            /\ registered[Documents[returned'.doc].languageId] # "disposed")
           => LET out == SyncPart[<<expected(registered,
                                             Documents[returned'.doc].languageId),
                                    returned'.doc,
                                    <<returned'.line, returned'.column>>,
                                    returned'.cancelledAtCall,
                                    options.onExternalNavigation>>]
              IN /\ returned'.analyzer
                      = expected(registered,
                                 Documents[returned'.doc].languageId)
                 /\ returned'.stage = out.stage
                 /\ returned'.symbolName = out.symbolName
                 /\ returned'.localDefinition = out.localDefinition
                 /\ returned'.importPath = out.importPath
        /\ \A c \in CallIds :
             (/\ calls[c].pc = "idle"
              /\ calls'[c].pc = "awaiting"
              /\ registered[Documents[calls'[c].doc].languageId] # "disposed")
             => calls'[c].analyzer
                  = expected(registered, Documents[calls'[c].doc].languageId)
    ]_vars

\* C19's case: the TypeScript analyzer was registered for python, the
\* entry of typescript is still the built-in one, and a call for the Python
\* document used the TypeScript analyzer
C19_Witness ==
  /\ registered["python"] = TypeScriptAnalyzer
  /\ registered["typescript"] = "none"
  /\ analyzers["typescript"] = TypeScriptAnalyzer
  /\ returned.call # 0
  /\ returned.doc = "py"
  /\ returned.analyzer = TypeScriptAnalyzer

\* C20 as stated: the collaborator is invoked at most once in a call, and
\* only if an analyzer is registered, an identifier was found, the token
\* was not cancelled, no definition of the document matches the identifier
\* and the import path is not empty; and whenever a definition of the
\* document matches the identifier at the cursor, the call returns its
\* location without invoking the collaborator.
C20_LocalMatchAlwaysReturned ==
  returned.call # 0 =>
    LET local == LocalMatch[<<returned.analyzer, returned.doc,
                              <<returned.line, returned.column>>>>]
    IN /\ returned.invoked \in {0, 1}
       /\ returned.invoked = 1 =>
            /\ returned.analyzer # NoAnalyzer
            /\ returned.symbolName # Null
            /\ ~returned.cancelledAtCall
            /\ local = NullObject
            /\ returned.importPath \notin {Null, <<>>}
       /\ local # NullObject =>
            /\ returned.invoked = 0
            /\ returned.result
                 = LocalLocation(Documents[returned.doc].uri, local)

\* C20, amended: the collaborator is invoked at most once in a call, and
\* only if an analyzer is registered, an identifier was found, the token
\* was not cancelled, no definition of the document matches the identifier
\* and the import path is not empty (this holds of the completed call and
\* of every call suspended at the collaborator); whenever a definition of
\* the document matches the identifier at the cursor, the collaborator is
\* not invoked, and the call returns the definition's location if the
\* token was not cancelled when the call was made, null if it was.
C20_InvokedOnlyAsLastResort ==
  /\ returned.call # 0 =>
       LET local == LocalMatch[<<returned.analyzer, returned.doc,
                                 <<returned.line, returned.column>>>>]
       IN /\ returned.invoked \in {0, 1}
          /\ returned.invoked = 1 =>
               /\ returned.analyzer # NoAnalyzer
               /\ returned.symbolName # Null
               /\ ~returned.cancelledAtCall
               /\ local = NullObject
               /\ returned.importPath \notin {Null, <<>>}
          /\ local # NullObject =>
               /\ returned.invoked = 0
               /\ returned.result
                    = IF returned.cancelledAtCall THEN NullObject
                      ELSE LocalLocation(Documents[returned.doc].uri, local)
  /\ \A c \in CallIds :
       calls[c].pc = "awaiting" =>
         /\ calls[c].analyzer # NoAnalyzer
         /\ calls[c].symbolName # Null
         /\ ~calls[c].cancelledAtCall
         /\ LocalMatch[<<calls[c].analyzer, calls[c].doc,
                         <<calls[c].line, calls[c].column>>>>] = NullObject
         /\ calls[c].importPath \notin {Null, <<>>}

\* C20's case: the name at the cursor is bound by an import with a path and
\* declared by a function of the document, a collaborator is configured,
\* and the call returned the function's location without invoking it
C20_Witness ==
  /\ returned.call # 0
  /\ returned.doc = "both"
  /\ returned.symbolName = <<"f">>
  /\ ~returned.cancelledAtCall
  /\ options.onExternalNavigation
  /\ AnalyzerGetImportPath(returned.analyzer, Documents["both"].text,
                           returned.symbolName) = <<"m">>
  /\ returned.invoked = 0
  /\ returned.localDefinition.kind = "function"
  /\ returned.result.kind = "location"
  /\ returned.result.uri = Documents["both"].uri
  /\ returned.result.range.startLineNumber = 2

\* C21 as stated: cancellation does not affect local resolution: when a
\* definition of the document matches the identifier at the cursor, the
\* call returns the definition's location, whether the token was cancelled
\* when the call was made or not.
C21_LocalResolutionIgnoresToken ==
  (/\ returned.call # 0
   /\ LocalMatch[<<returned.analyzer, returned.doc,
                   <<returned.line, returned.column>>>>] # NullObject)
  => returned.result
       = LocalLocation(Documents[returned.doc].uri,
                       LocalMatch[<<returned.analyzer, returned.doc,
                                    <<returned.line, returned.column>>>>])

\* C21, amended: the token is checked once before the local search (after
\* the identifier was found). When a definition of the document matches the
\* identifier at the cursor, the call completes without being suspended;
\* with a token cancelled when the call was made it returns null, and
\* findDefinitions was not called (the analyzer was called once, for the
\* identifier); with a token not cancelled it returns the definition's
\* location.
C21_TokenCheckedBeforeLocalSearch ==
  (/\ returned.call # 0
   /\ LocalMatch[<<returned.analyzer, returned.doc,
                   <<returned.line, returned.column>>>>] # NullObject)
  => /\ returned.reply = "none"
     /\ returned.invoked = 0
     /\ returned.cancelledAtCall
          => /\ returned.stage = "cancelled"
             /\ returned.analyzerCalls = 1
             /\ returned.localDefinition = NullObject
             /\ returned.result = NullObject
     /\ ~returned.cancelledAtCall
          => /\ returned.stage = "local"
             /\ returned.analyzerCalls = 2
             /\ returned.result
                  = LocalLocation(
                      Documents[returned.doc].uri,
                      LocalMatch[<<returned.analyzer, returned.doc,
                                   <<returned.line, returned.column>>>>])

\* C21's case: the cursor is on f, which a function of the document
\* declares, the token was cancelled when the call was made, and the call
\* returned null
C21_Witness ==
  /\ returned.call # 0
  /\ returned.doc = "both"
  /\ returned.symbolName = <<"f">>
  /\ returned.cancelledAtCall
  /\ LocalMatch[<<returned.analyzer, "both",
                  <<returned.line, returned.column>>>>].kind = "function"
  /\ returned.result = NullObject

\* ------------------------------------------------------------------------
\* Properties of overlapping calls (under SpecOverlap)
\* ------------------------------------------------------------------------

\* C22: overlapping resolutions are independent. In every step, a call
\* suspended at the collaborator is left as it is, or its own token is
\* cancelled, or it completes, and the other suspended calls are left as
\* they are in the last two cases; the call that completes was invoked with
\* the identifier and the import path of its own document and position, and
\* it returns the target of its own reply if its own token is not cancelled,
\* null otherwise, whatever the other calls, the order of the replies and
\* the registry are. A step of a resolution leaves the registry as it is,
\* and so a step that changes the registry (registerAnalyzer, dispose)
\* changes no suspended call and completes none.
C22_OverlappingCallsIndependent ==
  [][/\ \A c \in DOMAIN calls :
          calls[c].pc = "awaiting" =>
            \/ calls'[c] = calls[c]
            \/ /\ calls'[c] = [calls[c] EXCEPT !.cancelled = TRUE]
               /\ \A o \in DOMAIN calls \ {c} : calls'[o] = calls[o]
               /\ returned'.call = 0
            \/ /\ calls'[c] = IdleCall
               /\ \A o \in DOMAIN calls \ {c} : calls'[o] = calls[o]
               /\ returned'.call = c
               /\ returned'.doc = calls[c].doc
               /\ returned'.line = calls[c].line
               /\ returned'.column = calls[c].column
               /\ returned'.invoked = 1
               /\ returned'.invokedWith
                    = <<SyncPart[<<calls[c].analyzer, calls[c].doc,
                                   <<calls[c].line, calls[c].column>>,
                                   FALSE, TRUE>>].symbolName,
                        SyncPart[<<calls[c].analyzer, calls[c].doc,
                                   <<calls[c].line, calls[c].column>>,
                                   FALSE, TRUE>>].importPath,
                        Documents[calls[c].doc].uri>>
               /\ returned'.completion = "return"
               /\ returned'.result
                    = IF returned'.reply = "target" /\ ~calls[c].cancelled
                      THEN Location(returned'.target.uri,
                                    returned'.target.range)
                      ELSE NullObject
     /\ (calls' # calls \/ returned'.call # 0) => analyzers' = analyzers
    ]_vars

\* C22's case: two calls were suspended at the same time; the reply of the
\* second arrived first, while the first was still suspended with its
\* token cancelled, and after the registry entry of the second call's
\* language was replaced or cleared; the second call returned the target
\* of its reply
C22_Witness ==
  /\ returned.call = 2
  /\ calls[1].pc = "awaiting"
  /\ calls[1].cancelled
  /\ analyzers[Documents[returned.doc].languageId] # returned.analyzer
  /\ returned.reply = "target"
  /\ ~returned.cancelledAtResume
  /\ returned.result.kind = "location"
  /\ returned.result.uri = returned.target.uri

====
